---- MODULE Spec2Model ----
(***************************************************************************)
(* Reunite-AI: the embedding matchers (pages/helper/match_algo.py), the    *)
(* CCTV video scan (pages/helper/video_processor.py), the storage layer    *)
(* they write through (pages/helper/db_queries.py) and the endpoints that  *)
(* start them (api/routers/video.py).                                      *)
(*                                                                         *)
(* Numbers.  Embeddings are sequences of integers.  A tolerance or a       *)
(* threshold t is held in hundredths (60 stands for 0.60).  A cosine       *)
(* distance 1 - d/sqrt(n) is held exactly as the pair [d, n] (d the dot    *)
(* product, n the product of the squared norms) and compared by cross      *)
(* multiplication, so no rounding is modelled.  On the embeddings used     *)
(* here (components in -1..1) and the tolerances used here (0.60 and 1.00) *)
(* the exact comparison and the float64 comparison of the code agree: a    *)
(* zero dot product gives exactly 1.0 in float64, and no other distance of *)
(* these embeddings lies within rounding error of a tolerance.             *)
(***************************************************************************)
EXTENDS Integers, Sequences, FiniteSets, TLC

VARIABLES
    cases,        \* table RegisteredCases, in storage order
    sightings,    \* table PublicSubmissions, in storage order
    ret,          \* the value the last matcher call returned
    DEEPFACE_AVAILABLE,  \* match_algo's import flag
    uploads,      \* table VideoUploads: video id -> record
    detections,   \* table VideoDetections, in insertion order
    response,     \* the last answer of an endpoint: status code and detail
    pv,           \* the frame of the process_video task
    extracted,    \* what the extractor returned so far, frame by frame
    tasks,        \* the matcher runs the endpoints started, in order of start
    commits       \* the update_matched_with commits, in commit order

task_vars == <<tasks, commits>>

matcher_vars == <<sightings, ret, DEEPFACE_AVAILABLE, task_vars>>

video_vars == <<uploads, detections, response, pv, extracted>>

vars == <<cases, matcher_vars, video_vars>>

(***************************************************************************)
(* Bounds of the model.                                                    *)
(***************************************************************************)
MaxFrameCount == 11     \* native frames of the longest valid video
MaxFacesTotal == 2      \* faces the extractor returns over one scan

(***************************************************************************)
(* Program constants.                                                      *)
(***************************************************************************)
FRAME_INTERVAL_SECONDS == 1
PROGRESS_UPDATE_INTERVAL == 10
MAX_DURATION_SECONDS == 1800
ERROR_MESSAGE_LIMIT == 500
DEFAULT_TOLERANCE == 60
INITIAL_MIN_DISTANCE == 100

NoneInt == -1           \* None in an Optional[int] column
NoneId == "None"        \* None in matched_with / a best_match_id not yet set

(***************************************************************************)
(* Embeddings and the two distance functions.                              *)
(***************************************************************************)
RECURSIVE SumTo(_, _)
SumTo(v, k) == IF k = 0 THEN 0 ELSE v[k] + SumTo(v, k - 1)

\* np.sum(encoding)
np_sum(v) == SumTo(v, Len(v))

RECURSIVE DotTo(_, _, _)
DotTo(a, b, k) == IF k = 0 THEN 0 ELSE a[k] * b[k] + DotTo(a, b, k - 1)

\* np.dot(a, b) for two vectors of one length
np_dot(a, b) == DotTo(a, b, Len(a))

\* np.linalg.norm(a) squared; the norm is zero exactly when this is zero
norm_sq(a) == np_dot(a, a)

\* The value 100.0 that min_distance starts from: 1 - (-99)/sqrt(1).
InitialDistance == [d |-> 1 - INITIAL_MIN_DISTANCE, n |-> 1]

\* The zero-norm answer 1.0: 1 - 0/sqrt(1).
DistanceOne == [d |-> 0, n |-> 1]

calculate_cosine_distance(encoding1, encoding2) ==
    IF norm_sq(encoding1) = 0 \/ norm_sq(encoding2) = 0
    THEN DistanceOne
    ELSE [d |-> np_dot(encoding1, encoding2),
          n |-> norm_sq(encoding1) * norm_sq(encoding2)]

\* A faulty variant of cosine_distance: a zero norm counts as identical.
cosine_distance_zero_identical(a, b) ==
    IF norm_sq(a) = 0 \/ norm_sq(b) = 0
    THEN [d |-> 1, n |-> 1]
    ELSE [d |-> np_dot(a, b), n |-> norm_sq(a) * norm_sq(b)]

cosine_distance(a, b) ==
    IF norm_sq(a) = 0 \/ norm_sq(b) = 0
    THEN DistanceOne
    ELSE [d |-> np_dot(a, b), n |-> norm_sq(a) * norm_sq(b)]

\* x < y on distances, i.e. x.d/sqrt(x.n) > y.d/sqrt(y.n)
DistLess(x, y) ==
    IF x.d >= 0 /\ y.d < 0 THEN TRUE
    ELSE IF x.d < 0 /\ y.d >= 0 THEN FALSE
    ELSE IF x.d >= 0 THEN x.d * x.d * y.n > y.d * y.d * x.n
    ELSE x.d * x.d * y.n < y.d * y.d * x.n

\* x <= t/100 on a distance, i.e. 100 * x.d / sqrt(x.n) >= 100 - t
DistLeq(x, t) ==
    LET l == 100 * x.d
        c == 100 - t
    IN  IF l >= 0 /\ c <= 0 THEN TRUE
        ELSE IF l < 0 /\ c >= 0 THEN FALSE
        ELSE IF l >= 0 THEN l * l >= c * c * x.n
        ELSE l * l <= c * c * x.n

(***************************************************************************)
(* Stored embeddings.  The face_mesh column is text: JSON of a list        *)
(* ("list"), text json.loads rejects ("malformed"), or the empty string.   *)
(***************************************************************************)
Json(v) == [kind |-> "list", val |-> v]
Malformed == [kind |-> "malformed", val |-> <<>>]
EmptyText == [kind |-> "empty", val |-> <<>>]

\* json.loads(text): ok = FALSE when it raises JSONDecodeError
json_loads(text) == [ok |-> text.kind = "list", val |-> text.val]

(***************************************************************************)
(* db_queries: the video tables.                                           *)
(***************************************************************************)
has_video_upload(video_id) == video_id \in DOMAIN uploads

create_video_upload(tbl, upload) ==
    [v \in DOMAIN tbl \cup {upload.id} |-> IF v = upload.id THEN upload ELSE tbl[v]]

\* A None argument (NoneInt, FALSE for completed_at) leaves the column alone.
update_video_status(tbl, video_id, status, processed_frames, total_frames, total_detections, error_message, completed_at) ==
    IF video_id \notin DOMAIN tbl THEN tbl
    ELSE [tbl EXCEPT ![video_id] =
            [@ EXCEPT
               !.status = status,
               !.processed_frames =
                   IF processed_frames # NoneInt THEN processed_frames ELSE @,
               !.total_frames =
                   IF total_frames # NoneInt THEN total_frames ELSE @,
               !.total_detections =
                   IF total_detections # NoneInt THEN total_detections ELSE @,
               !.error_message =
                   IF error_message # NoneInt THEN error_message ELSE @,
               !.completed_at = IF completed_at THEN TRUE ELSE @]]

\* A faulty variant of save_video_detections_batch: nothing is inserted.
save_video_detections_batch_lost(tbl, batch) == tbl

save_video_detections_batch(tbl, batch) == tbl \o batch

\* get_case_embedding: the face_mesh of the first row with that id
get_case_embedding(case_id) ==
    LET hits == SelectSeq(cases, LAMBDA c : c.id = case_id)
    IN  IF hits = <<>> THEN [found |-> FALSE, mesh |-> EmptyText]
        ELSE [found |-> TRUE, mesh |-> hits[1].face_mesh]

get_registered_case_detail(case_id) ==
    SelectSeq(cases, LAMBDA c : c.id = case_id)

(***************************************************************************)
(* The video file an upload carries, as validate_video_file and            *)
(* cv2.VideoCapture see it.                                                *)
(***************************************************************************)
\* The last one is over the duration cap at every frame rate of VideoFiles.
FrameCounts == {0, 3, MaxFrameCount, 2 * MAX_DURATION_SECONDS + 1}

VideoFiles ==
    [ext_ok : BOOLEAN, size_ok : BOOLEAN, openable : BOOLEAN,
     fps : {0, 1, 2}, frame_count : FrameCounts]

\* A faulty variant of validate_video_file: the duration is not checked.
validate_video_file_any_duration(file) ==
    IF ~file.ext_ok THEN [ok |-> FALSE, error |-> "Unsupported format"]
    ELSE IF ~file.size_ok THEN [ok |-> FALSE, error |-> "File too large"]
    ELSE IF ~file.openable THEN [ok |-> FALSE, error |-> "Cannot open video file"]
    ELSE IF file.fps <= 0 \/ file.frame_count <= 0
    THEN [ok |-> FALSE, error |-> "Invalid video"]
    ELSE [ok |-> TRUE, error |-> "None"]

\* Returns (ok, error_msg).
validate_video_file(file) ==
    IF ~file.ext_ok THEN [ok |-> FALSE, error |-> "Unsupported format"]
    ELSE IF ~file.size_ok THEN [ok |-> FALSE, error |-> "File too large"]
    ELSE IF ~file.openable THEN [ok |-> FALSE, error |-> "Cannot open video file"]
    ELSE IF file.fps <= 0 \/ file.frame_count <= 0
    THEN [ok |-> FALSE, error |-> "Invalid video"]
    \* duration_sec = frame_count / fps > 1800
    ELSE IF file.frame_count > MAX_DURATION_SECONDS * file.fps
    THEN [ok |-> FALSE, error |-> "Video too long"]
    ELSE [ok |-> TRUE, error |-> "None"]

\* A faulty variant of total_frames_to_process: the end of the stream is
\* sampled too.
total_frames_through_end(file) ==
    IF file.fps > 0
    THEN Cardinality({k \in 0 .. file.frame_count :
                        k * FRAME_INTERVAL_SECONDS * file.fps <= file.frame_count})
    ELSE 0

\* len(extraction_times): t = 0, I, 2I, ... while t < frame_count / fps,
\* and no timestamp at all when fps is not positive.
total_frames_to_process(file) ==
    IF file.fps > 0
    THEN Cardinality({k \in 0 .. file.frame_count :
                        k * FRAME_INTERVAL_SECONDS * file.fps < file.frame_count})
    ELSE 0

\* extraction_times[frame_idx], frame_idx counted from 0
extraction_time(frame_idx) == frame_idx * FRAME_INTERVAL_SECONDS

Thresholds == {DEFAULT_TOLERANCE, 100}

\* Lengths of "{type(e).__name__}: {str(e)}" an exception can carry.
ErrorMsgLens == {ERROR_MESSAGE_LIMIT, ERROR_MESSAGE_LIMIT + 1}

\* A faulty variant of truncate_error: one character too many is kept.
truncate_error_off_by_one(len) ==
    IF len > ERROR_MESSAGE_LIMIT + 1 THEN ERROR_MESSAGE_LIMIT + 1 ELSE len

\* len(error_msg[:500])
truncate_error(len) == IF len > ERROR_MESSAGE_LIMIT THEN ERROR_MESSAGE_LIMIT ELSE len

\* What _detect_and_embed can return for one frame: it keeps only embeddings
\* of norm >= 1, so no zero vector; the dimension may differ from the target's.
FaceEmbeddings == {<<1, 0>>, <<0, 1>>, <<1>>}

FaceLists ==
    {<<>>} \cup {<<e>> : e \in FaceEmbeddings}
           \cup {<<e, f>> : e \in FaceEmbeddings, f \in FaceEmbeddings}

\* The frames on which the extractor finds faces: the first two, the one
\* that completes a progress interval and the one after it.
FaceFrames == {0, 1, PROGRESS_UPDATE_INTERVAL - 1, PROGRESS_UPDATE_INTERVAL}

RECURSIVE FacesReturned(_)
FacesReturned(hist) ==
    IF hist = <<>> THEN 0 ELSE Len(hist[1].faces) + FacesReturned(Tail(hist))

(***************************************************************************)
(* POST /upload                                                            *)
(***************************************************************************)
NewUpload(video_id, file, case_id, confidence_threshold) ==
    [id |-> video_id, file_path |-> file, case_id |-> case_id,
     status |-> "queued", total_frames |-> NoneInt, processed_frames |-> 0,
     total_detections |-> 0, error_message |-> NoneInt,
     confidence_threshold |-> confidence_threshold, completed_at |-> FALSE]

\* The status code and the detail (or status field) of an endpoint's answer.
Answer(status, detail) == [status |-> status, detail |-> detail]

NoAnswer == Answer(0, "none")

IdlePv ==
    [pc |-> "none", video_id |-> NoneId, case_id |-> NoneId,
     file_path |-> [ext_ok |-> TRUE, size_ok |-> TRUE, openable |-> TRUE,
                    fps |-> 0, frame_count |-> 0],
     threshold |-> 0, cap |-> "None", target_embedding |-> <<>>,
     total_frames_to_process |-> 0, detections_buffer |-> <<>>,
     processed |-> 0, detection_count |-> 0, exc |-> "none",
     error_msg |-> NoneInt]

upload_video ==
    /\ pv.pc = "none"
    /\ ~has_video_upload("v1")
    /\ \E case_id \in {"c1", "c9"}, file \in VideoFiles,
          confidence_threshold \in Thresholds, saved \in BOOLEAN :
          IF get_registered_case_detail(case_id) = <<>>
          THEN /\ response' = Answer(404, "Selected case not found in database.")
               /\ UNCHANGED <<uploads, pv>>
          ELSE IF ~file.ext_ok
          THEN /\ response' = Answer(400, "Unsupported file format")
               /\ UNCHANGED <<uploads, pv>>
          ELSE IF ~saved
          THEN /\ response' = Answer(500, "Failed to save video")
               /\ UNCHANGED <<uploads, pv>>
          ELSE IF ~validate_video_file(file).ok
          THEN /\ response' = Answer(400, validate_video_file(file).error)
               /\ UNCHANGED <<uploads, pv>>
          ELSE /\ uploads' = create_video_upload(
                     uploads, NewUpload("v1", file, case_id, confidence_threshold))
               \* background_tasks.add_task(process_video, video_id)
               /\ pv' = [pv EXCEPT !.pc = "scheduled", !.video_id = "v1"]
               /\ response' = Answer(201, "queued")
    /\ UNCHANGED <<cases, matcher_vars, detections, extracted>>

\* process_video is an entry point of its own: called with an id that has no
\* VideoUploads row.
process_video_unknown_id ==
    /\ pv.pc = "none"
    /\ ~has_video_upload("v0")
    /\ pv' = [pv EXCEPT !.pc = "scheduled", !.video_id = "v0"]
    /\ UNCHANGED <<cases, matcher_vars, uploads, detections, response, extracted>>

(***************************************************************************)
(* process_video(video_id), one action per stretch of the function between *)
(* two writes to the store.  pv.pc is the position of the task.            *)
(***************************************************************************)
\* raise inside the try block: control goes to the except clause
\* exc names the exception, error_msg is the length of its rendering
Raise(exc, len) == [pv EXCEPT !.pc = "except", !.exc = exc, !.error_msg = len]

\* where the for loop goes after a frame: the next frame, or past the loop
LoopNext(processed) ==
    IF processed < pv.total_frames_to_process THEN "scan" ELSE "flush_remaining"

\* A faulty variant of pv_start: the write of processing is left out.
pv_start_without_processing ==
    /\ pv.pc = "scheduled"
    /\ IF ~has_video_upload(pv.video_id)
       THEN pv' = [pv EXCEPT !.pc = "returned"]
       ELSE LET upload == uploads[pv.video_id]
            IN  pv' = [pv EXCEPT !.pc = "load_target",
                                 !.case_id = upload.case_id,
                                 !.file_path = upload.file_path,
                                 !.threshold = upload.confidence_threshold,
                                 !.cap = "None"]
    /\ UNCHANGED <<cases, matcher_vars, uploads, detections, response, extracted>>

\* lines 287-300: load the upload record, set status processing
pv_start ==
    /\ pv.pc = "scheduled"
    /\ IF ~has_video_upload(pv.video_id)
       THEN pv' = [pv EXCEPT !.pc = "returned"] /\ UNCHANGED uploads
       ELSE LET upload == uploads[pv.video_id]
            IN  /\ uploads' = update_video_status(uploads, pv.video_id, "processing",
                                  NoneInt, NoneInt, NoneInt, NoneInt, FALSE)
                /\ pv' = [pv EXCEPT !.pc = "load_target",
                                    !.case_id = upload.case_id,
                                    !.file_path = upload.file_path,
                                    !.threshold = upload.confidence_threshold,
                                    !.cap = "None"]
    /\ UNCHANGED <<cases, matcher_vars, detections, response, extracted>>

\* A faulty variant of target_exception: the empty list is let through.
target_exception_no_empty_check(face_mesh_json) ==
    IF ~face_mesh_json.found \/ face_mesh_json.mesh.kind = "empty"
    THEN "ValueError: no face embedding"
    ELSE IF ~json_loads(face_mesh_json.mesh).ok THEN "JSONDecodeError"
    ELSE "none"

\* lines 305-311: the exception the target's stored embedding raises, or "none"
target_exception(face_mesh_json) ==
    \* not face_mesh_json: no row, or the empty string
    IF ~face_mesh_json.found \/ face_mesh_json.mesh.kind = "empty"
    THEN "ValueError: no face embedding"
    ELSE IF ~json_loads(face_mesh_json.mesh).ok THEN "JSONDecodeError"
    ELSE IF Len(json_loads(face_mesh_json.mesh).val) = 0
    THEN "ValueError: empty/invalid face embedding"
    ELSE "none"

\* lines 304-314: load the target embedding
pv_load_target ==
    /\ pv.pc = "load_target"
    /\ LET face_mesh_json == get_case_embedding(pv.case_id)
           exc == target_exception(face_mesh_json)
       IN  IF exc # "none"
           THEN \E len \in ErrorMsgLens : pv' = Raise(exc, len)
           ELSE pv' = [pv EXCEPT !.pc = "ensure_deepface",
                                 !.target_embedding =
                                     json_loads(face_mesh_json.mesh).val]
    /\ UNCHANGED <<cases, matcher_vars, uploads, detections, response, extracted>>

\* lines 316-318: _ensure_deepface()
pv_ensure_deepface ==
    /\ pv.pc = "ensure_deepface"
    /\ \E available \in BOOLEAN, len \in ErrorMsgLens :
          IF ~available THEN pv' = Raise("RuntimeError: DeepFace is not available", len)
          ELSE pv' = [pv EXCEPT !.pc = "open_video"]
    /\ UNCHANGED <<cases, matcher_vars, uploads, detections, response, extracted>>

\* lines 320-351: open the capture, count the timestamps, store total_frames
pv_open_video ==
    /\ pv.pc = "open_video"
    /\ \E opened \in BOOLEAN, len \in ErrorMsgLens :
          IF ~opened
          THEN /\ pv' = [Raise("RuntimeError: Cannot open video file", len)
                           EXCEPT !.cap = "unopened"]
               /\ UNCHANGED uploads
          ELSE LET n == total_frames_to_process(pv.file_path)
               IN  /\ uploads' = update_video_status(uploads, pv.video_id, "processing",
                                     NoneInt, n, NoneInt, NoneInt, FALSE)
                   /\ pv' = [pv EXCEPT !.cap = "opened",
                                       !.total_frames_to_process = n,
                                       !.detections_buffer = <<>>,
                                       !.processed = 0,
                                       !.detection_count = 0,
                                       !.pc = IF 0 < n THEN "scan" ELSE "flush_remaining"]
    /\ UNCHANGED <<cases, matcher_vars, detections, response, extracted>>

\* A faulty variant of FrameDetections: at most one row per frame.
RECURSIVE FrameDetectionsFirstOnly(_, _, _, _, _, _)
FrameDetectionsFirstOnly(faces, k, frame_idx, target_embedding, threshold, ids) ==
    IF k > Len(faces) THEN <<>>
    ELSE LET embedding == faces[k]
             rest == FrameDetectionsFirstOnly(faces, k + 1, frame_idx,
                                              target_embedding, threshold, ids)
         IN  IF Len(embedding) # Len(target_embedding) THEN rest
             ELSE IF DistLeq(cosine_distance(target_embedding, embedding), threshold)
             THEN <<[video_id |-> ids[1], case_id |-> ids[2],
                     timestamp_seconds |-> extraction_time(frame_idx),
                     frame_number |-> frame_idx, face_no |-> k]>>
             ELSE rest

\* lines 376-413 for one frame: the rows the faces of the frame add to the
\* buffer.  face_no stands for the row's own id, crop file and confidence.
RECURSIVE FrameDetections(_, _, _, _, _, _)
FrameDetections(faces, k, frame_idx, target_embedding, threshold, ids) ==
    IF k > Len(faces) THEN <<>>
    ELSE LET embedding == faces[k]
             rest == FrameDetections(faces, k + 1, frame_idx, target_embedding,
                                     threshold, ids)
         IN  IF Len(embedding) # Len(target_embedding) THEN rest
             ELSE IF DistLeq(cosine_distance(target_embedding, embedding), threshold)
             THEN <<[video_id |-> ids[1], case_id |-> ids[2],
                     timestamp_seconds |-> extraction_time(frame_idx),
                     frame_number |-> frame_idx, face_no |-> k]>> \o rest
             ELSE rest

\* lines 353-424: one iteration of the frame loop
pv_scan_frame ==
    /\ pv.pc = "scan"
    /\ \E readable \in BOOLEAN, faces \in FaceLists :
          /\ FacesReturned(extracted) + Len(faces) <= MaxFacesTotal
          /\ faces # <<>> => pv.processed \in FaceFrames
          /\ IF ~readable
             THEN \* lines 358-360: processed += 1; continue
                  /\ faces = <<>>
                  /\ pv' = [pv EXCEPT !.processed = @ + 1,
                                      !.pc = LoopNext(pv.processed + 1)]
                  /\ UNCHANGED extracted
             ELSE LET found == FrameDetections(faces, 1, pv.processed,
                                   pv.target_embedding, pv.threshold,
                                   <<pv.video_id, pv.case_id>>)
                      processed == pv.processed + 1
                  IN  /\ pv' = [pv EXCEPT
                                  !.detections_buffer = @ \o found,
                                  !.detection_count = @ + Len(found),
                                  !.processed = processed,
                                  !.pc = IF processed % PROGRESS_UPDATE_INTERVAL = 0
                                         THEN "flush" ELSE LoopNext(processed)]
                      /\ extracted' =
                           IF faces = <<>> THEN extracted
                           ELSE Append(extracted,
                                       [frame_number |-> pv.processed,
                                        timestamp_seconds |-> extraction_time(pv.processed),
                                        faces |-> faces])
    /\ UNCHANGED <<cases, matcher_vars, uploads, detections, response>>

\* lines 426-429: the periodic flush of the buffer
pv_flush ==
    /\ pv.pc = "flush"
    /\ IF pv.detections_buffer # <<>>
       THEN /\ detections' = save_video_detections_batch(detections, pv.detections_buffer)
            /\ pv' = [pv EXCEPT !.detections_buffer = <<>>, !.pc = "progress"]
       ELSE /\ pv' = [pv EXCEPT !.pc = "progress"]
            /\ UNCHANGED detections
    /\ UNCHANGED <<cases, matcher_vars, uploads, response, extracted>>

\* lines 430-436: the periodic progress update
pv_progress ==
    /\ pv.pc = "progress"
    /\ uploads' = update_video_status(uploads, pv.video_id, "processing",
                      pv.processed, NoneInt, pv.detection_count, NoneInt, FALSE)
    /\ pv' = [pv EXCEPT !.pc = LoopNext(pv.processed)]
    /\ UNCHANGED <<cases, matcher_vars, detections, response, extracted>>

\* lines 438-441: flush what the loop left in the buffer
pv_flush_remaining ==
    /\ pv.pc = "flush_remaining"
    /\ IF pv.detections_buffer # <<>>
       THEN /\ detections' = save_video_detections_batch(detections, pv.detections_buffer)
            /\ pv' = [pv EXCEPT !.detections_buffer = <<>>, !.pc = "mark_done"]
       ELSE /\ pv' = [pv EXCEPT !.pc = "mark_done"]
            /\ UNCHANGED detections
    /\ UNCHANGED <<cases, matcher_vars, uploads, response, extracted>>

\* A faulty variant of pv_mark_done: done is written without the counters.
pv_mark_done_without_counters ==
    /\ pv.pc = "mark_done"
    /\ uploads' = update_video_status(uploads, pv.video_id, "done",
                      NoneInt, NoneInt, NoneInt, NoneInt, TRUE)
    /\ pv' = [pv EXCEPT !.pc = "finally"]
    /\ UNCHANGED <<cases, matcher_vars, detections, response, extracted>>

\* lines 443-455: status done, the final counters, completed_at
pv_mark_done ==
    /\ pv.pc = "mark_done"
    /\ uploads' = update_video_status(uploads, pv.video_id, "done",
                      pv.processed, NoneInt, pv.detection_count, NoneInt, TRUE)
    /\ pv' = [pv EXCEPT !.pc = "finally"]
    /\ UNCHANGED <<cases, matcher_vars, detections, response, extracted>>

\* A call of the scan raises: the frame read or resize, the extractor, the
\* crop save (in the frame loop), save_video_detections_batch (a non-empty
\* buffer only), update_video_status.
RaisingCall ==
    \/ pv.pc \in {"scan", "progress", "mark_done"}
    \/ pv.pc \in {"flush", "flush_remaining"} /\ pv.detections_buffer # <<>>

pv_raise ==
    /\ RaisingCall
    /\ \E len \in ErrorMsgLens : pv' = Raise("Exception in the scan", len)
    /\ UNCHANGED <<cases, matcher_vars, uploads, detections, response, extracted>>

\* A faulty variant of pv_except: the failure is logged but not stored.
pv_except_without_status ==
    /\ pv.pc = "except"
    /\ pv' = [pv EXCEPT !.pc = "finally"]
    /\ UNCHANGED <<cases, matcher_vars, uploads, detections, response, extracted>>

\* lines 457-465: the except clause.  The write of the clause itself is taken
\* to succeed; were it to raise, process_video would end with that exception.
pv_except ==
    /\ pv.pc = "except"
    /\ uploads' = update_video_status(uploads, pv.video_id, "failed",
                      NoneInt, NoneInt, NoneInt, truncate_error(pv.error_msg), FALSE)
    /\ pv' = [pv EXCEPT !.pc = "finally"]
    /\ UNCHANGED <<cases, matcher_vars, detections, response, extracted>>

\* lines 467-470: the finally clause
pv_finally ==
    /\ pv.pc = "finally"
    /\ pv' = [pv EXCEPT !.pc = "returned",
                        !.cap = IF pv.cap # "None" THEN "released" ELSE @]
    /\ UNCHANGED <<cases, matcher_vars, uploads, detections, response, extracted>>

process_video ==
    \/ pv_start \/ pv_load_target \/ pv_ensure_deepface \/ pv_open_video
    \/ pv_scan_frame \/ pv_flush \/ pv_progress \/ pv_flush_remaining
    \/ pv_mark_done \/ pv_raise \/ pv_except \/ pv_finally

(***************************************************************************)
(* The video specification: one stored case, one upload, one task.         *)
(***************************************************************************)
NewCase(id, mesh) ==
    [id |-> id, status |-> "NF", face_mesh |-> mesh, matched_with |-> NoneId]

TargetMeshes ==
    {Json(<<1, 0>>), Json(<<0, 0>>), Json(<<>>), Malformed, EmptyText}

NoReturn == [call |-> [fn |-> "none"]]

InitVideo ==
    /\ \E mesh \in TargetMeshes : cases = <<NewCase("c1", mesh)>>
    /\ sightings = <<>>
    /\ ret = NoReturn
    /\ DEEPFACE_AVAILABLE = TRUE
    /\ uploads = [v \in {} |-> 0]
    /\ detections = <<>>
    /\ response = NoAnswer
    /\ pv = IdlePv
    /\ extracted = <<>>
    /\ tasks = <<>>
    /\ commits = <<>>

NextVideo ==
    \/ upload_video
    \/ process_video_unknown_id
    \/ pv_start \/ pv_load_target \/ pv_ensure_deepface \/ pv_open_video
    \/ pv_scan_frame \/ pv_flush \/ pv_progress \/ pv_flush_remaining
    \/ pv_mark_done \/ pv_raise \/ pv_except \/ pv_finally

SpecVideo == InitVideo /\ [][NextVideo]_vars

\* The task is a scheduled background task: it keeps running until it returns.
FairSpecVideo == SpecVideo /\ WF_vars(process_video)

\* process_video(video_id) called once more for a video whose task has
\* returned: a new frame of the same function, nothing else changed.
process_video_again ==
    /\ pv.pc = "returned"
    /\ has_video_upload(pv.video_id)
    /\ pv' = [IdlePv EXCEPT !.pc = "scheduled", !.video_id = pv.video_id]
    /\ UNCHANGED <<cases, matcher_vars, uploads, detections, response, extracted>>

NextRetrigger == NextVideo \/ process_video_again

SpecRetrigger == InitVideo /\ [][NextRetrigger]_vars

(***************************************************************************)
(* Claims about the video scan, checked under SpecVideo / FairSpecVideo.   *)
(***************************************************************************)
StatusOf(tbl, video_id) ==
    IF video_id \in DOMAIN tbl THEN tbl[video_id].status ELSE "absent"

VideoRows(video_id) == SelectSeq(detections, LAMBDA r : r.video_id = video_id)

\* C1: the status of the uploaded video only moves queued -> processing ->
\* done or queued -> processing -> failed: every step that changes it is one
\* of creation as queued, queued -> processing, processing -> done,
\* processing -> failed, so nothing leaves done or failed and nothing goes
\* from queued straight to a terminal status or back to queued.
C1_StatusMoves ==
    [][ \/ StatusOf(uploads', "v1") = StatusOf(uploads, "v1")
        \/ <<StatusOf(uploads, "v1"), StatusOf(uploads', "v1")>> \in
             { <<"absent", "queued">>, <<"queued", "processing">>,
               <<"processing", "done">>, <<"processing", "failed">> } ]_vars

C1_Witness ==
    /\ StatusOf(uploads, "v1") = "done"
    /\ pv.pc = "returned"
    /\ uploads["v1"].processed_frames > PROGRESS_UPDATE_INTERVAL

\* The stored embedding of the upload's target case is missing, is not a JSON
\* list, or is the empty list.
TargetUnusable(video_id) ==
    LET hits == SelectSeq(cases, LAMBDA c : c.id = uploads[video_id].case_id)
    IN  \/ hits = <<>>
        \/ hits[1].face_mesh.kind # "list"
        \/ Len(hits[1].face_mesh.val) = 0

\* The run met one of the listed unrecoverable errors after finding its record.
ListedError ==
    \/ TargetUnusable(pv.video_id)
    \/ pv.exc \in { "RuntimeError: DeepFace is not available",
                    "RuntimeError: Cannot open video file" }

TargetOf(video_id) ==
    json_loads(get_case_embedding(uploads[video_id].case_id).mesh).val

Qualifying(video_id) ==
    { p \in UNION { {<<i, k>> : k \in DOMAIN extracted[i].faces} :
                      i \in DOMAIN extracted } :
        /\ Len(extracted[p[1]].faces[p[2]]) = Len(TargetOf(video_id))
        /\ DistLeq(cosine_distance(TargetOf(video_id), extracted[p[1]].faces[p[2]]),
                   uploads[video_id].confidence_threshold) }

RowOfPair(video_id, p) ==
    { j \in 1 .. Len(detections) :
        /\ detections[j].video_id = video_id
        /\ detections[j].frame_number = extracted[p[1]].frame_number
        /\ detections[j].face_no = p[2] }

\* C4: when the scan is done, every qualifying (frame, face) pair has exactly
\* one persisted row, carrying the sampled timestamp of its frame, and there
\* is no other row.
C4_RowsAreQualifyingPairs ==
    StatusOf(uploads, "v1") = "done" =>
        /\ \A p \in Qualifying("v1") :
              /\ Cardinality(RowOfPair("v1", p)) = 1
              /\ \A j \in RowOfPair("v1", p) :
                    detections[j].timestamp_seconds =
                        extracted[p[1]].timestamp_seconds
        /\ Len(detections) = Cardinality(Qualifying("v1"))

\* Two faces of one frame both qualify and both are persisted.
C4_Witness ==
    /\ StatusOf(uploads, "v1") = "done"
    /\ Len(detections) = 2
    /\ detections[1].frame_number = detections[2].frame_number
    /\ detections[1].timestamp_seconds = PROGRESS_UPDATE_INTERVAL

\* C5: a done record has processed_frames = total_frames = the number of
\* sampled timestamps, total_detections = the number of rows persisted for
\* the video, and completed_at set; no other record has completed_at set.
C5_DoneCounters ==
    \A v \in DOMAIN uploads :
        /\ uploads[v].status = "done" =>
              /\ uploads[v].processed_frames = uploads[v].total_frames
              /\ uploads[v].total_frames =
                     total_frames_to_process(uploads[v].file_path)
              /\ uploads[v].total_detections = Len(VideoRows(v))
              /\ uploads[v].completed_at
        /\ uploads[v].completed_at => uploads[v].status = "done"

C5_Witness ==
    /\ StatusOf(uploads, "v1") = "done"
    /\ uploads["v1"].total_frames = MaxFrameCount
    /\ uploads["v1"].total_detections = 2

fetch_public_cases(status) ==
    IF status = "All" THEN sightings
    ELSE SelectSeq(sightings, LAMBDA r : r.status = status)

\* lines 48-55 / 84-91: decode each row, keep the decodable non-empty lists
RECURSIVE decode_rows(_)
decode_rows(rows) ==
    IF rows = <<>> THEN <<>>
    ELSE LET loaded == json_loads(rows[1].face_mesh)
         IN  IF loaded.ok /\ Len(loaded.val) > 0
             THEN <<[id |-> rows[1].id, encoding |-> loaded.val]>>
                      \o decode_rows(Tail(rows))
             ELSE decode_rows(Tail(rows))

\* Both loaders return None for "nothing": None is the empty sequence here.
get_public_cases_data(status) == decode_rows(fetch_public_cases(status))

\* A faulty variant of get_registered_cases_data: cases that carry a link
\* are left out.
get_unlinked_registered_cases_data(status) ==
    decode_rows(SelectSeq(cases, LAMBDA r : r.status = status
                                            /\ r.matched_with = NoneId))

get_registered_cases_data(status) ==
    decode_rows(SelectSeq(cases, LAMBDA r : r.status = status))

\* A faulty variant of update_matched_with: a link that is set is kept.
update_matched_with_if_empty(tbl, registered_case_id, public_case_id) ==
    [i \in DOMAIN tbl |->
        IF tbl[i].id = registered_case_id /\ tbl[i].matched_with = NoneId
        THEN [tbl[i] EXCEPT !.matched_with = public_case_id]
        ELSE tbl[i]]

\* A faulty variant of update_matched_with: the case is marked Found as well.
update_matched_with_and_found(tbl, registered_case_id, public_case_id) ==
    [i \in DOMAIN tbl |->
        IF tbl[i].id = registered_case_id
        THEN [tbl[i] EXCEPT !.matched_with = public_case_id, !.status = "F"]
        ELSE tbl[i]]

\* update_matched_with(registered_case_id, public_case_id) on the cases table
update_matched_with(tbl, registered_case_id, public_case_id) ==
    [i \in DOMAIN tbl |->
        IF tbl[i].id = registered_case_id
        THEN [tbl[i] EXCEPT !.matched_with = public_case_id]
        ELSE tbl[i]]

NoBest == [best_match_id |-> NoneId, min_distance |-> InitialDistance]

\* A faulty variant of match_scan: every compared candidate replaces the best
\* one, so the last one is kept.
RECURSIVE match_scan_keeps_last(_, _, _, _)
match_scan_keeps_last(pub_encoding, registered_cases, k, best) ==
    IF k > Len(registered_cases) THEN best
    ELSE LET reg_encoding == registered_cases[k].encoding
         IN  IF np_sum(reg_encoding) = 0 \/ Len(reg_encoding) # Len(pub_encoding)
             THEN match_scan_keeps_last(pub_encoding, registered_cases, k + 1, best)
             ELSE match_scan_keeps_last(
                      pub_encoding, registered_cases, k + 1,
                      [best_match_id |-> registered_cases[k].id,
                       min_distance |-> calculate_cosine_distance(pub_encoding,
                                                                  reg_encoding)])

\* match, lines 140-158: the inner loop over the registered cases
RECURSIVE match_scan(_, _, _, _)
match_scan(pub_encoding, registered_cases, k, best) ==
    IF k > Len(registered_cases) THEN best
    ELSE LET reg_encoding == registered_cases[k].encoding
         IN  IF np_sum(reg_encoding) = 0
             THEN match_scan(pub_encoding, registered_cases, k + 1, best)
             ELSE IF Len(reg_encoding) # Len(pub_encoding)
             THEN match_scan(pub_encoding, registered_cases, k + 1, best)
             ELSE LET dist == calculate_cosine_distance(pub_encoding, reg_encoding)
                  IN  IF DistLess(dist, best.min_distance)
                      THEN match_scan(pub_encoding, registered_cases, k + 1,
                                      [best_match_id |-> registered_cases[k].id,
                                       min_distance |-> dist])
                      ELSE match_scan(pub_encoding, registered_cases, k + 1, best)

\* A faulty variant of append_match: the entry is put at the front.
append_match_at_front(matched_images, best_match_id, entry) ==
    [c \in DOMAIN matched_images \cup {best_match_id} |->
        IF c = best_match_id
        THEN <<entry>> \o
                 (IF c \in DOMAIN matched_images THEN matched_images[c] ELSE <<>>)
        ELSE matched_images[c]]

\* matched_images[best_match_id].append(entry)
append_match(matched_images, best_match_id, entry) ==
    [c \in DOMAIN matched_images \cup {best_match_id} |->
        IF c = best_match_id
        THEN (IF c \in DOMAIN matched_images THEN matched_images[c] ELSE <<>>)
                 \o <<entry>>
        ELSE matched_images[c]]

\* A faulty variant of accepts: a distance equal to the tolerance is refused.
\* t/100 as a distance: 1 - (100 - t)/sqrt(10000)
ToleranceDistance(t) == [d |-> 100 - t, n |-> 10000]

accepts_strictly(best, tolerance) ==
    /\ best.best_match_id # NoneId
    /\ DistLess(best.min_distance, ToleranceDistance(tolerance))

\* x <= tolerance and best_match_id is set: lines 160 and 279
accepts(best, tolerance) ==
    best.best_match_id # NoneId /\ DistLeq(best.min_distance, tolerance)

\* match, lines 129-175: the loop over the public submissions.  acc carries the
\* cases table, matched_images and the update_matched_with calls made.
RECURSIVE match_loop(_, _, _, _, _)
match_loop(public_cases, registered_cases, tolerance, k, acc) ==
    IF k > Len(public_cases) THEN acc
    ELSE LET pub_id == public_cases[k].id
             pub_encoding == public_cases[k].encoding
         IN  IF np_sum(pub_encoding) = 0
             THEN match_loop(public_cases, registered_cases, tolerance, k + 1, acc)
             ELSE LET best == match_scan(pub_encoding, registered_cases, 1, NoBest)
                  IN  IF accepts(best, tolerance)
                      THEN match_loop(public_cases, registered_cases, tolerance, k + 1,
                             [tbl |-> update_matched_with(acc.tbl, best.best_match_id, pub_id),
                              matched_images |->
                                  append_match(acc.matched_images, best.best_match_id,
                                      [public_id |-> pub_id,
                                       distance |-> best.min_distance]),
                              wrote |-> Append(acc.wrote,
                                               <<best.best_match_id, pub_id>>)])
                      ELSE match_loop(public_cases, registered_cases, tolerance,
                                      k + 1, acc)

BothTables == {"PublicSubmissions", "RegisteredCases"}

\* The shape of a returned dict; keys lists the keys the dict has, read the
\* tables the call queried before it returned.
Return(call, read, keys, status, message) ==
    [call |-> call, read |-> read, keys |-> keys, status |-> status,
     message |-> message,
     match_found |-> FALSE, registered_id |-> NoneId, public_id |-> NoneId,
     distance |-> InitialDistance, result |-> [c \in {} |-> <<>>],
     wrote |-> <<>>]

\* A faulty variant of match_returns: the availability test and the test for
\* empty populations are left out.
match_returns_unguarded(tolerance) ==
    LET acc == match_loop(get_public_cases_data("NF"),
                          get_registered_cases_data("NF"), tolerance, 1,
                          [tbl |-> cases, matched_images |-> [c \in {} |-> <<>>],
                           wrote |-> <<>>])
    IN  [tbl |-> acc.tbl,
         ret |-> [Return([fn |-> "match", tolerance |-> tolerance], BothTables,
                         {"status", "result"}, TRUE, NoneId)
                    EXCEPT !.result = acc.matched_images, !.wrote = acc.wrote]]

\* match(tolerance)
match_returns(tolerance) ==
    LET call == [fn |-> "match", tolerance |-> tolerance]
    IN  IF ~DEEPFACE_AVAILABLE
        THEN [tbl |-> cases,
              ret |-> Return(call, {}, {"status", "message"}, FALSE,
                             "DeepFace library not installed")]
        ELSE LET public_cases == get_public_cases_data("NF")
                 registered_cases == get_registered_cases_data("NF")
             IN  IF public_cases = <<>> \/ registered_cases = <<>>
                 THEN [tbl |-> cases,
                       ret |-> Return(call, BothTables, {"status", "message"},
                                      FALSE, "No data available for matching")]
                 ELSE LET acc == match_loop(public_cases, registered_cases,
                                     tolerance, 1,
                                     [tbl |-> cases,
                                      matched_images |-> [c \in {} |-> <<>>],
                                      wrote |-> <<>>])
                      IN  [tbl |-> acc.tbl,
                           ret |-> [Return(call, BothTables, {"status", "result"},
                                           TRUE, NoneId)
                                      EXCEPT !.result = acc.matched_images,
                                             !.wrote = acc.wrote]]

\* A faulty variant of one_scan: vectors of different lengths are compared on
\* their common prefix.
Prefix(v, n) == SubSeq(v, 1, IF Len(v) < n THEN Len(v) ELSE n)

RECURSIVE one_scan_any_dimension(_, _, _, _)
one_scan_any_dimension(target_encoding, candidates, k, best) ==
    IF k > Len(candidates) THEN best
    ELSE LET cand_encoding == candidates[k].encoding
             dist == calculate_cosine_distance(
                         Prefix(target_encoding, Len(cand_encoding)),
                         Prefix(cand_encoding, Len(target_encoding)))
         IN  IF DistLess(dist, best.min_distance)
             THEN one_scan_any_dimension(target_encoding, candidates, k + 1,
                                         [best_match_id |-> candidates[k].id,
                                          min_distance |-> dist])
             ELSE one_scan_any_dimension(target_encoding, candidates, k + 1, best)

\* match_one_against_all, lines 257-274: the loop over the candidates
RECURSIVE one_scan(_, _, _, _)
one_scan(target_encoding, candidates, k, best) ==
    IF k > Len(candidates) THEN best
    ELSE LET cand_encoding == candidates[k].encoding
         IN  IF Len(cand_encoding) # Len(target_encoding)
             THEN one_scan(target_encoding, candidates, k + 1, best)
             ELSE LET dist == calculate_cosine_distance(target_encoding, cand_encoding)
                  IN  IF DistLess(dist, best.min_distance)
                      THEN one_scan(target_encoding, candidates, k + 1,
                                    [best_match_id |-> candidates[k].id,
                                     min_distance |-> dist])
                      ELSE one_scan(target_encoding, candidates, k + 1, best)

\* A faulty variant of public_target: the all-zero test is left out.
public_target_unchecked(case_id) ==
    LET hits == SelectSeq(fetch_public_cases("NF"), LAMBDA r : r.id = case_id)
    IN  IF hits = <<>> THEN [outcome |-> "not found", encoding |-> <<>>]
        ELSE LET loaded == json_loads(hits[1].face_mesh)
             IN  IF ~loaded.ok \/ Len(loaded.val) = 0
                 THEN [outcome |-> "not found", encoding |-> <<>>]
                 ELSE [outcome |-> "found", encoding |-> loaded.val]

\* lines 202-219: find the public target among the rows under review
\* (ids are primary keys, so at most one row has the id)
public_target(case_id) ==
    LET hits == SelectSeq(fetch_public_cases("NF"), LAMBDA r : r.id = case_id)
    IN  IF hits = <<>> THEN [outcome |-> "not found", encoding |-> <<>>]
        ELSE LET loaded == json_loads(hits[1].face_mesh)
             IN  IF ~loaded.ok THEN [outcome |-> "not found", encoding |-> <<>>]
                 ELSE IF Len(loaded.val) = 0 \/ np_sum(loaded.val) = 0
                 THEN [outcome |-> "invalid", encoding |-> <<>>]
                 ELSE [outcome |-> "found", encoding |-> loaded.val]

\* lines 227-237: find the registered target in get_registered_cases_data()
registered_target(case_id) ==
    LET hits == SelectSeq(get_registered_cases_data("NF"), LAMBDA r : r.id = case_id)
    IN  IF hits = <<>> THEN [outcome |-> "not found", encoding |-> <<>>]
        ELSE [outcome |-> "found", encoding |-> hits[1].encoding]

\* match_one_against_all(case_id, case_type, tolerance)
match_one_returns(case_id, case_type, tolerance) ==
    LET call == [fn |-> "match_one_against_all", case_id |-> case_id,
                 case_type |-> case_type, tolerance |-> tolerance]
        fail(message, read) ==
            [tbl |-> cases,
             ret |-> Return(call, read, {"status", "message"}, FALSE, message)]
        \* the table the target is looked up in
        first == IF case_type = "public" THEN {"PublicSubmissions"}
                 ELSE {"RegisteredCases"}
    IN  IF ~DEEPFACE_AVAILABLE THEN fail("DeepFace not installed", {})
        ELSE IF case_type \notin {"public", "registered"}
        THEN fail("Invalid case_type", {})
        ELSE LET target == IF case_type = "public" THEN public_target(case_id)
                           ELSE registered_target(case_id)
                 candidates == IF case_type = "public"
                               THEN get_registered_cases_data("NF")
                               ELSE get_public_cases_data("NF")
             IN  IF target.outcome = "invalid" THEN fail("Invalid/Zero encoding", first)
                 ELSE IF target.outcome = "not found" THEN fail("Case not found", first)
                 ELSE IF candidates = <<>>
                 THEN [tbl |-> cases,
                       ret |-> Return(call, BothTables, {"status", "result"},
                                      TRUE, NoneId)]
                 ELSE LET best == one_scan(target.encoding, candidates, 1, NoBest)
                          reg_id == IF case_type = "public" THEN best.best_match_id
                                    ELSE case_id
                          pub_id == IF case_type = "public" THEN case_id
                                    ELSE best.best_match_id
                      IN  IF accepts(best, tolerance)
                          THEN [tbl |-> update_matched_with(cases, reg_id, pub_id),
                                ret |-> [Return(call, BothTables,
                                           {"status", "match_found", "registered_id",
                                            "public_id", "distance"}, TRUE, NoneId)
                                         EXCEPT !.match_found = TRUE,
                                                !.registered_id = reg_id,
                                                !.public_id = pub_id,
                                                !.distance = best.min_distance,
                                                !.wrote = <<<<reg_id, pub_id>>>>]]
                          ELSE [tbl |-> cases,
                                ret |-> Return(call, BothTables, {"status", "match_found"},
                                               TRUE, NoneId)]

(***************************************************************************)
(* The matcher specification: a stored population, then matcher runs one   *)
(* after the other.                                                        *)
(***************************************************************************)
MaxRecords == 3     \* cases plus sightings in the store

Tolerances == {DEFAULT_TOLERANCE, 100}

\* Stored embeddings: two orthogonal unit vectors, the all-zero placeholder,
\* a non-zero vector whose components sum to zero, another dimension and the
\* empty list.
StoredMeshes ==
    {Json(<<1, 0>>), Json(<<0, 1>>), Json(<<0, 0>>), Json(<<1, -1>>),
     Json(<<1>>), Json(<<>>)}

CaseId(i) == "c" \o ToString(i)
SightingId(i) == "s" \o ToString(i)

NewSighting(id, mesh) == [id |-> id, status |-> "NF", face_mesh |-> mesh]

IdsOf(tbl) == {tbl[i].id : i \in DOMAIN tbl}

match ==
    /\ \E tolerance \in Tolerances :
          \E out \in {match_returns(tolerance)} :
             cases' = out.tbl /\ ret' = out.ret
    /\ UNCHANGED <<sightings, DEEPFACE_AVAILABLE, task_vars, video_vars>>

match_one_against_all ==
    /\ \E case_type \in {"public", "registered"}, tolerance \in Tolerances :
       \E case_id \in IdsOf(cases) \cup IdsOf(sightings) :
          \E out \in {match_one_returns(case_id, case_type, tolerance)} :
             cases' = out.tbl /\ ret' = out.ret
    /\ UNCHANGED <<sightings, DEEPFACE_AVAILABLE, task_vars, video_vars>>

InitMatch ==
    /\ \E nc \in 0 .. MaxRecords :
       \E ns \in 0 .. MaxRecords - nc :
       \E cm \in [1 .. nc -> StoredMeshes], sm \in [1 .. ns -> StoredMeshes] :
          /\ cases = [i \in 1 .. nc |-> NewCase(CaseId(i), cm[i])]
          /\ sightings = [i \in 1 .. ns |-> NewSighting(SightingId(i), sm[i])]
    /\ ret = NoReturn
    /\ DEEPFACE_AVAILABLE \in BOOLEAN
    /\ uploads = [v \in {} |-> 0]
    /\ detections = <<>>
    /\ response = NoAnswer
    /\ pv = IdlePv
    /\ extracted = <<>>
    /\ tasks = <<>>
    /\ commits = <<>>

NextMatch == match \/ match_one_against_all

SpecMatch == InitMatch /\ [][NextMatch]_vars

(***************************************************************************)
(* The endpoints that start matcher runs (api/routers/public.py, cases.py, *)
(* matching.py) and the runs themselves, step by step: a run reads one     *)
(* table, then the other, then commits its links one at a time, and other  *)
(* runs and requests take their steps in between.                          *)
(***************************************************************************)
MaxTasks == 2       \* matcher runs started by the endpoints

\* What extract_face_encoding_from_image returns for a photo with a face.
SubmittedEncodings == {<<1, 0>>, <<0, 1>>}

NoTarget == [outcome |-> "none", encoding |-> <<>>]

NewTask(fn, case_id, case_type, tolerance, created) ==
    [pc |-> "scheduled", fn |-> fn, case_id |-> case_id, case_type |-> case_type,
     tolerance |-> tolerance, created |-> created, target |-> NoTarget,
     public_cases |-> <<>>, pending |-> <<>>, outcome |-> "none"]

\* The encodings the extraction can give: None (the empty sequence here) when
\* no face is found or DeepFace cannot be imported.
extract_face_encoding_from_image ==
    {<<>>} \cup (IF DEEPFACE_AVAILABLE THEN SubmittedEncodings ELSE {})

\* Faulty variants of the two endpoints: the run is scheduled, the record is
\* not stored.
submit_sighting_unsaved ==
    /\ Len(tasks) < MaxTasks
    /\ \E face_encoding \in extract_face_encoding_from_image :
          /\ face_encoding # <<>>
          /\ tasks' = Append(tasks, NewTask("match_one_against_all",
                                 SightingId(Len(sightings) + 1), "public",
                                 DEFAULT_TOLERANCE, Json(face_encoding)))
          /\ response' = Answer(200, "accepted")
    /\ UNCHANGED <<cases, sightings, ret, DEEPFACE_AVAILABLE, commits, uploads,
                   detections, pv, extracted>>

\* POST /public, lines 89-152
submit_sighting ==
    /\ Len(tasks) < MaxTasks
    /\ \E face_encoding \in extract_face_encoding_from_image :
          IF face_encoding = <<>>
          THEN \* lines 115-121: no face detected
               /\ response' = Answer(400, "No face detected")
               /\ UNCHANGED <<sightings, tasks>>
          ELSE LET submission_id == SightingId(Len(sightings) + 1)
               IN  \* new_public_case(submission), then add_task
                   /\ sightings' = Append(sightings,
                          NewSighting(submission_id, Json(face_encoding)))
                   /\ tasks' = Append(tasks, NewTask("match_one_against_all",
                                          submission_id, "public",
                                          DEFAULT_TOLERANCE, Json(face_encoding)))
                   /\ response' = Answer(200, "accepted")
    /\ UNCHANGED <<cases, ret, DEEPFACE_AVAILABLE, commits, uploads, detections,
                   pv, extracted>>

\* POST /cases, lines 156-230
register_case ==
    /\ Len(tasks) < MaxTasks
    /\ \E face_encoding \in extract_face_encoding_from_image :
          IF face_encoding = <<>>
          THEN \* lines 185-192: no face detected
               /\ response' = Answer(400, "No face detected")
               /\ UNCHANGED <<cases, tasks>>
          ELSE LET case_id == CaseId(Len(cases) + 1)
               IN  \* register_new_case(case), then add_task
                   /\ cases' = Append(cases, NewCase(case_id, Json(face_encoding)))
                   /\ tasks' = Append(tasks, NewTask("match_one_against_all",
                                          case_id, "registered",
                                          DEFAULT_TOLERANCE, Json(face_encoding)))
                   /\ response' = Answer(200, "accepted")
    /\ UNCHANGED <<sightings, ret, DEEPFACE_AVAILABLE, commits, uploads,
                   detections, pv, extracted>>

\* POST /matching/run, lines 29-54: match runs in the thread pool
run_matching ==
    /\ Len(tasks) < MaxTasks
    /\ \E tolerance \in Tolerances :
          tasks' = Append(tasks, NewTask("match", NoneId, NoneId, tolerance,
                                         EmptyText))
    /\ UNCHANGED <<cases, sightings, ret, DEEPFACE_AVAILABLE, commits, video_vars>>

Returned(task, outcome) == [task EXCEPT !.pc = "returned", !.outcome = outcome]

\* The first query of a run: match lines 116, match_one_against_all lines
\* 191-219 (public) and 227-237 (registered).  db_ok is whether the query
\* succeeds; the loaders turn an exception into None, line 203 does not.
task_load_first(t) ==
    /\ t \in DOMAIN tasks
    /\ tasks[t].pc = "scheduled"
    /\ \E db_ok \in BOOLEAN :
       LET task == tasks[t]
           target == IF task.case_type = "public" THEN public_target(task.case_id)
                     ELSE IF db_ok THEN registered_target(task.case_id)
                     ELSE [outcome |-> "not found", encoding |-> <<>>]
       IN  tasks' = [tasks EXCEPT ![t] =
             IF ~DEEPFACE_AVAILABLE THEN Returned(task, "status false")
             ELSE IF task.fn = "match"
             THEN [task EXCEPT !.pc = "loaded",
                               !.public_cases = IF db_ok
                                                THEN get_public_cases_data("NF")
                                                ELSE <<>>]
             ELSE IF task.case_type = "public" /\ ~db_ok
             THEN [task EXCEPT !.pc = "raised", !.outcome = "exception"]
             ELSE IF target.outcome \in {"invalid", "not found"}
             THEN Returned(task, "status false")
             ELSE [task EXCEPT !.pc = "loaded", !.target = target]]
    /\ UNCHANGED <<cases, sightings, ret, DEEPFACE_AVAILABLE, commits, video_vars>>

\* The second query and the scan: match lines 117-160, match_one_against_all
\* lines 222 / 240 and 246-279.  pending holds the links the run goes on to
\* persist.
task_load_second(t) ==
    /\ t \in DOMAIN tasks
    /\ tasks[t].pc = "loaded"
    /\ \E db_ok \in BOOLEAN :
       LET task == tasks[t]
           registered_cases == IF db_ok THEN get_registered_cases_data("NF") ELSE <<>>
           candidates == IF ~db_ok THEN <<>>
                         ELSE IF task.case_type = "public"
                         THEN get_registered_cases_data("NF")
                         ELSE get_public_cases_data("NF")
           acc == match_loop(task.public_cases, registered_cases, task.tolerance, 1,
                             [tbl |-> cases, matched_images |-> [c \in {} |-> <<>>],
                              wrote |-> <<>>])
           best == one_scan(task.target.encoding, candidates, 1, NoBest)
           pair == IF task.case_type = "public"
                   THEN <<best.best_match_id, task.case_id>>
                   ELSE <<task.case_id, best.best_match_id>>
       IN  tasks' = [tasks EXCEPT ![t] =
             IF task.fn = "match"
             THEN IF task.public_cases = <<>> \/ registered_cases = <<>>
                  THEN Returned(task, "status false")
                  ELSE IF acc.wrote = <<>> THEN Returned(task, "result")
                  ELSE [task EXCEPT !.pc = "writing", !.pending = acc.wrote,
                                    !.outcome = "result"]
             ELSE IF candidates = <<>> THEN Returned(task, "no candidates")
             ELSE IF accepts(best, task.tolerance)
             THEN [task EXCEPT !.pc = "writing", !.pending = <<pair>>,
                               !.outcome = "match"]
             ELSE Returned(task, "no match")]
    /\ UNCHANGED <<cases, sightings, ret, DEEPFACE_AVAILABLE, commits, video_vars>>

InProgress(t) == {u \in DOMAIN tasks \ {t} : tasks[u].pc \in {"loaded", "writing"}}

\* One update_matched_with call of the run (lines 164-167 / 287-291): its
\* commit writes the link; an exception in it is logged and the run goes on.
task_commit(t) ==
    /\ t \in DOMAIN tasks
    /\ tasks[t].pc = "writing"
    /\ \E db_ok \in BOOLEAN :
       LET link == Head(tasks[t].pending)
       IN  /\ IF db_ok
              THEN /\ cases' = update_matched_with(cases, link[1], link[2])
                   /\ commits' = Append(commits,
                          [task |-> t, case |-> link[1], sighting |-> link[2],
                           running |-> InProgress(t)])
              ELSE UNCHANGED <<cases, commits>>
           /\ tasks' = [tasks EXCEPT ![t] =
                          [@ EXCEPT !.pending = Tail(@),
                                    !.pc = IF Tail(tasks[t].pending) = <<>>
                                           THEN "returned" ELSE "writing"]]
    /\ UNCHANGED <<sightings, ret, DEEPFACE_AVAILABLE, video_vars>>

InitTasks ==
    \* the store before the requests: at most one case and one sighting
    /\ cases \in {<<>>, <<NewCase(CaseId(1), Json(<<1, 0>>))>>}
    /\ sightings \in {<<>>, <<NewSighting(SightingId(1), Json(<<1, 0>>))>>}
    /\ ret = NoReturn
    /\ DEEPFACE_AVAILABLE \in BOOLEAN
    /\ uploads = [v \in {} |-> 0]
    /\ detections = <<>>
    /\ response = NoAnswer
    /\ pv = IdlePv
    /\ extracted = <<>>
    /\ tasks = <<>>
    /\ commits = <<>>

NextTasks ==
    \/ submit_sighting
    \/ register_case
    \/ run_matching
    \/ \E t \in 1 .. MaxTasks : task_load_first(t)
    \/ \E t \in 1 .. MaxTasks : task_load_second(t)
    \/ \E t \in 1 .. MaxTasks : task_commit(t)

SpecTasks == InitTasks /\ [][NextTasks]_vars

(***************************************************************************)
(* Confirmation of a match: POST /matching/confirm (matching.py 62-79) and *)
(* db_queries.update_found_status, next to the matcher runs.               *)
(***************************************************************************)
HasRow(tbl, id) == \E i \in DOMAIN tbl : tbl[i].id = id

\* A faulty variant of update_found_status: the change of the case is kept
\* when the sighting is not found.
update_found_status_partial(case_tbl, sighting_tbl, register_case_id, public_case_id) ==
    IF ~HasRow(case_tbl, register_case_id)
    THEN [raised |-> TRUE, cases |-> case_tbl, sightings |-> sighting_tbl]
    ELSE [raised |-> ~HasRow(sighting_tbl, public_case_id),
          cases |-> [i \in DOMAIN case_tbl |->
                       IF case_tbl[i].id = register_case_id
                       THEN [case_tbl[i] EXCEPT !.status = "F",
                                                !.matched_with = public_case_id]
                       ELSE case_tbl[i]],
          sightings |-> [i \in DOMAIN sighting_tbl |->
                           IF sighting_tbl[i].id = public_case_id
                           THEN [sighting_tbl[i] EXCEPT !.status = "F"]
                           ELSE sighting_tbl[i]]]

\* update_found_status, lines 278-297: .one() raises when the row is missing,
\* and leaving the session without commit drops what was changed; the one
\* commit writes both rows.
update_found_status(case_tbl, sighting_tbl, register_case_id, public_case_id) ==
    IF ~HasRow(case_tbl, register_case_id) \/ ~HasRow(sighting_tbl, public_case_id)
    THEN [raised |-> TRUE, cases |-> case_tbl, sightings |-> sighting_tbl]
    ELSE [raised |-> FALSE,
          cases |-> [i \in DOMAIN case_tbl |->
                       IF case_tbl[i].id = register_case_id
                       THEN [case_tbl[i] EXCEPT !.status = "F",
                                                !.matched_with = public_case_id]
                       ELSE case_tbl[i]],
          sightings |-> [i \in DOMAIN sighting_tbl |->
                           IF sighting_tbl[i].id = public_case_id
                           THEN [sighting_tbl[i] EXCEPT !.status = "F"]
                           ELSE sighting_tbl[i]]]

\* Ids no row has.
MissingCaseId == "c9"
MissingSightingId == "s9"

\* POST /matching/confirm: the exception is caught and reported in the body.
confirm_match ==
    /\ \E registered_case_id \in IdsOf(cases) \cup {MissingCaseId},
          public_case_id \in IdsOf(sightings) \cup {MissingSightingId} :
          LET out == update_found_status(cases, sightings, registered_case_id,
                                         public_case_id)
          IN  /\ cases' = out.cases
              /\ sightings' = out.sightings
              /\ ret' = [call |-> [fn |-> "update_found_status",
                                   register_case_id |-> registered_case_id,
                                   public_case_id |-> public_case_id],
                         raised |-> out.raised]
              /\ response' = Answer(200, IF out.raised THEN "error" ELSE "confirmed")
    /\ UNCHANGED <<DEEPFACE_AVAILABLE, task_vars, uploads, detections, pv, extracted>>

InitConfirm ==
    \* the store before the requests: at most one case and two sightings
    /\ cases \in {<<>>, <<NewCase(CaseId(1), Json(<<1, 0>>))>>}
    /\ sightings \in {<<>>, <<NewSighting(SightingId(1), Json(<<1, 0>>))>>,
                      <<NewSighting(SightingId(1), Json(<<1, 0>>)),
                        NewSighting(SightingId(2), Json(<<1, 0>>))>>}
    /\ ret = NoReturn
    /\ DEEPFACE_AVAILABLE = TRUE
    /\ uploads = [v \in {} |-> 0]
    /\ detections = <<>>
    /\ response = NoAnswer
    /\ pv = IdlePv
    /\ extracted = <<>>
    /\ tasks = <<>>
    /\ commits = <<>>

NextConfirm ==
    \/ confirm_match
    \/ run_matching
    \/ \E t \in 1 .. MaxTasks : task_load_first(t)
    \/ \E t \in 1 .. MaxTasks : task_load_second(t)
    \/ \E t \in 1 .. MaxTasks : task_commit(t)

SpecConfirm == InitConfirm /\ [][NextConfirm]_vars

\* Confirmations next to matcher runs that run to their end one at a time.
NextFound == confirm_match \/ match \/ match_one_against_all

SpecFound == InitConfirm /\ [][NextFound]_vars

(***************************************************************************)
(* Claims about the matchers, checked under SpecMatch.                     *)
(***************************************************************************)
MeshOf(tbl, id) == SelectSeq(tbl, LAMBDA r : r.id = id)[1].face_mesh
EncodingOf(tbl, id) == json_loads(MeshOf(tbl, id)).val

AllZero(e) == Len(e) > 0 /\ \A i \in DOMAIN e : e[i] = 0

\* The sightings a match result accepted, and the pairs it reports
ReportedPairs(r) ==
    UNION { {<<c, r.result[c][j].public_id>> : j \in DOMAIN r.result[c]} :
            c \in DOMAIN r.result }
      \cup (IF r.match_found THEN {<<r.registered_id, r.public_id>>} ELSE {})

WrotePairs(r) == {r.wrote[j] : j \in DOMAIN r.wrote}

\* Some candidate of the list that match does not skip as a placeholder has
\* the query's dimension and lies within the tolerance.
SomeWithin(query, candidates, tolerance, skips_placeholders) ==
    \E k \in DOMAIN candidates :
        /\ skips_placeholders => np_sum(candidates[k].encoding) # 0
        /\ Len(candidates[k].encoding) = Len(query)
        /\ DistLeq(calculate_cosine_distance(query, candidates[k].encoding), tolerance)

C7_Step(r, before, after) ==
    /\ (r.call.fn = "match_one_against_all" /\ r.status) =>
          LET public == r.call.case_type = "public"
              query == IF public THEN EncodingOf(sightings, r.call.case_id)
                       ELSE EncodingOf(before, r.call.case_id)
              candidates == IF public THEN get_registered_cases_data("NF")
                            ELSE get_public_cases_data("NF")
          IN  /\ r.match_found <=>
                    SomeWithin(query, candidates, r.call.tolerance, FALSE)
              /\ ~r.match_found => after = before
    /\ (r.call.fn = "match" /\ r.status) =>
          LET public_cases == get_public_cases_data("NF")
              registered_cases == get_registered_cases_data("NF")
          IN  /\ \A k \in DOMAIN public_cases :
                    np_sum(public_cases[k].encoding) # 0 =>
                       ((\E p \in ReportedPairs(r) : p[2] = public_cases[k].id)
                          <=> SomeWithin(public_cases[k].encoding, registered_cases,
                                         r.call.tolerance, TRUE))
              /\ ReportedPairs(r) = {} => after = before

\* C7: in match and in match_one_against_all a query that is scanned is
\* accepted if and only if some candidate of its dimension, among those the
\* scan does not skip as placeholders, is at a distance <= the tolerance (the
\* minimum is then <= the tolerance; a distance equal to the tolerance
\* accepts); a run that accepts nothing writes no link.
C7_ThresholdGate == [][C7_Step(ret', cases, cases')]_vars

\* The only candidate has the query's dimension and lies beyond the tolerance.
C7_Witness ==
    /\ ret.call.fn = "match_one_against_all"
    /\ ret.call.case_type = "public"
    /\ ret.status /\ "match_found" \in ret.keys /\ ~ret.match_found
    /\ Len(get_registered_cases_data("NF")) = 1
    /\ Len(get_registered_cases_data("NF")[1].encoding)
          = Len(EncodingOf(sightings, ret.call.case_id))
    /\ \A i \in DOMAIN cases : cases[i].matched_with = NoneId

\* C8: every pair a matcher reports or links, and every link in the store, is
\* between a case and a sighting whose embeddings have the same length.
C8_SameDimension ==
    /\ ret.call.fn # "none" =>
          \A p \in ReportedPairs(ret) \cup WrotePairs(ret) :
              Len(EncodingOf(cases, p[1])) = Len(EncodingOf(sightings, p[2]))
    /\ \A i \in DOMAIN cases :
          cases[i].matched_with # NoneId =>
              Len(json_loads(cases[i].face_mesh).val)
                  = Len(EncodingOf(sightings, cases[i].matched_with))

\* Every candidate has another length than the query, and nothing is selected.
C8_Witness ==
    /\ ret.call.fn = "match_one_against_all"
    /\ ret.call.case_type = "public"
    /\ ret.status /\ "match_found" \in ret.keys /\ ~ret.match_found
    /\ Len(get_registered_cases_data("NF")) = 2
    /\ \A k \in DOMAIN get_registered_cases_data("NF") :
          Len(get_registered_cases_data("NF")[k].encoding)
              # Len(EncodingOf(sightings, ret.call.case_id))
    /\ ret.call.tolerance = 100

\* C9 as claimed: no matcher run reports, or persists a link that names, a
\* record whose embedding is all zeros, whatever the tolerance.
C9_ZeroNeverSelected ==
    ret.call.fn # "none" =>
        \A p \in ReportedPairs(ret) \cup WrotePairs(ret) :
            /\ ~AllZero(EncodingOf(cases, p[1]))
            /\ ~AllZero(EncodingOf(sightings, p[2]))

C10_Step(r, before, after) ==
    ( /\ r.call.fn = "match_one_against_all"
      /\ r.call.case_type = "public"
      /\ \E i \in DOMAIN sightings :
            /\ sightings[i].id = r.call.case_id
            /\ sightings[i].status = "NF"
            /\ sightings[i].face_mesh.kind = "list"
            /\ AllZero(sightings[i].face_mesh.val)
      /\ DEEPFACE_AVAILABLE )
    => /\ r.status = FALSE
       /\ r.message = "Invalid/Zero encoding"
       /\ r.message # "Case not found"
       /\ "match_found" \notin r.keys
       /\ after = before

\* C10: match_one_against_all for a sighting under review whose stored
\* embedding is all zeros returns status false with the invalid-encoding
\* message (neither the not-found message nor a no-match result) and writes
\* no link.
C10_ZeroSightingInvalid == [][C10_Step(ret', cases, cases')]_vars

C10_Witness ==
    /\ ret.call.fn = "match_one_against_all"
    /\ ret.call.case_type = "public"
    /\ ret.message = "Invalid/Zero encoding"
    /\ AllZero(EncodingOf(sightings, ret.call.case_id))
    /\ \E i \in DOMAIN cases : cases[i].face_mesh = Json(<<1, 0>>)

\* C11 as claimed: match_one_against_all for a registered case under review
\* whose stored embedding is all zeros returns status false with the
\* invalid-encoding message, not a match or a no-match result, and writes no
\* link.
C11_ZeroCaseInvalid ==
    ( /\ ret.call.fn = "match_one_against_all"
      /\ ret.call.case_type = "registered"
      /\ DEEPFACE_AVAILABLE
      /\ \E i \in DOMAIN cases :
            /\ cases[i].id = ret.call.case_id
            /\ cases[i].status = "NF"
            /\ cases[i].face_mesh.kind = "list"
            /\ AllZero(cases[i].face_mesh.val) )
    => /\ ret.status = FALSE
       /\ ret.message = "Invalid/Zero encoding"
       /\ "match_found" \notin ret.keys
       /\ ret.wrote = <<>>

C12_Step(r, before, after) ==
    /\ sightings' = sightings
    /\ DOMAIN after = DOMAIN before
    /\ \A i \in DOMAIN before :
          /\ after[i] = [before[i] EXCEPT !.matched_with = after[i].matched_with]
          /\ after[i].matched_with # before[i].matched_with =>
                /\ r.status
                /\ <<after[i].id, after[i].matched_with>> \in ReportedPairs(r)
    /\ (r.call.fn # "none" /\ ReportedPairs(r) = {}) => after = before

\* C12: a matcher run changes no embedding and no status of any case or
\* sighting; the only field it writes is matched_with of a case, and only to
\* the sighting of a pair the run accepted; a run that accepts nothing leaves
\* the store unchanged.
C12_OnlyLinksOnAcceptance == [][C12_Step(ret', cases, cases')]_vars

\* A run accepted a pair and its link is in the store.
C12_Witness ==
    /\ ret.call.fn = "match"
    /\ ret.status
    /\ \E i \in DOMAIN cases :
          /\ cases[i].matched_with # NoneId
          /\ <<cases[i].id, cases[i].matched_with>> \in ReportedPairs(ret)
          /\ cases[i].status = "NF"
    /\ \E i \in DOMAIN cases : cases[i].matched_with = NoneId

UnderReview(tbl) == {i \in DOMAIN tbl : tbl[i].status = "NF"}

C13_Step(r, before, after) ==
    /\ ( /\ r.call.fn = "match"
         /\ \/ ~DEEPFACE_AVAILABLE
            \/ UnderReview(sightings) = {}
            \/ UnderReview(before) = {} )
       => /\ r.status = FALSE
          /\ r.keys = {"status", "message"}
          /\ r.message # NoneId
          /\ after = before
    /\ (r.call.fn \in {"match", "match_one_against_all"} /\ ~DEEPFACE_AVAILABLE)
       => /\ r.status = FALSE
          /\ r.read = {}

\* C13: match returns status false with a message and writes no link when the
\* embedding backend is unavailable or when there is no sighting under review
\* or no open case; with the backend unavailable match and
\* match_one_against_all return without having queried any table.
C13_ReportedNotRaised == [][C13_Step(ret', cases, cases')]_vars

\* match ran on a store with sightings under review and no case.
C13_Witness ==
    /\ ret.call.fn = "match"
    /\ DEEPFACE_AVAILABLE
    /\ UnderReview(cases) = {}
    /\ UnderReview(sightings) # {}
    /\ ret.status = FALSE
    /\ ret.read = BothTables

IsNearest(query, other, candidates, skips_placeholders) ==
    LET compared == { k \in DOMAIN candidates :
                        /\ skips_placeholders => np_sum(candidates[k].encoding) # 0
                        /\ Len(candidates[k].encoding) = Len(query) }
    IN  /\ \E k \in compared : candidates[k].id = other
        /\ \A k \in compared :
              ~DistLess(calculate_cosine_distance(query, candidates[k].encoding),
                        calculate_cosine_distance(query, EncodingOf(
                            IF other \in IdsOf(cases) THEN cases ELSE sightings,
                            other)))

LastCommitOn(case_id) ==
    { k \in DOMAIN commits :
        /\ commits[k].case = case_id
        /\ \A j \in DOMAIN commits : j > k => commits[j].case # case_id }

\* C16: a case on which matcher runs committed links carries the sighting of
\* the commit that came last; so after two concurrent runs both persisted a
\* link on it, matched_with is the later writer's sighting, not empty and not
\* a value neither wrote.
C16_LastWriterWins ==
    \A i \in DOMAIN cases :
        \A k \in LastCommitOn(cases[i].id) :
            cases[i].matched_with = commits[k].sighting

\* Two runs in progress at the same time committed different sightings on
\* the same case, and both have returned.
C16_Witness ==
    /\ \E j, k \in DOMAIN commits :
          /\ j < k
          /\ commits[j].case = commits[k].case
          /\ commits[j].task # commits[k].task
          /\ commits[j].sighting # commits[k].sighting
          /\ commits[k].task \in commits[j].running
    /\ \A t \in DOMAIN tasks : tasks[t].pc = "returned"

\* C17: the record a submission or a registration created exists from the
\* moment its incremental match is scheduled, and whatever that run does
\* (match, no match, status false, exception) the record keeps the embedding
\* and the status it was created with.
C17_SubmissionKept ==
    \A t \in DOMAIN tasks :
        tasks[t].fn = "match_one_against_all" =>
            LET tbl == IF tasks[t].case_type = "public" THEN sightings ELSE cases
            IN  \E i \in DOMAIN tbl :
                    /\ tbl[i].id = tasks[t].case_id
                    /\ tbl[i].face_mesh = tasks[t].created
                    /\ tbl[i].status = "NF"

\* The run a registration scheduled matched the new case and wrote its link.
C17_Witness ==
    \E t \in DOMAIN tasks :
        /\ tasks[t].case_type = "registered"
        /\ tasks[t].pc = "returned"
        /\ tasks[t].outcome = "match"
        /\ \E i \in DOMAIN cases :
              /\ cases[i].id = tasks[t].case_id
              /\ cases[i].matched_with # NoneId
              /\ cases[i].face_mesh = tasks[t].created

(***************************************************************************)
(* Claims about the upload endpoint and the sampled timestamps, checked    *)
(* under SpecVideo.                                                        *)
(***************************************************************************)
\* None of the six reasons for rejection applies to the file.
PassesValidation(file) ==
    /\ file.ext_ok
    /\ file.size_ok
    /\ file.openable
    /\ file.fps > 0
    /\ file.frame_count > 0
    /\ file.frame_count <= MAX_DURATION_SECONDS * file.fps

ValidationErrors ==
    {"Unsupported file format", "Unsupported format", "File too large",
     "Cannot open video file", "Invalid video", "Video too long"}

\* C18: a video that fails validation is rejected before any frame is
\* sampled: every VideoUpload record holds a file that passes validation,
\* process_video is only ever scheduled by the endpoint for a video that has
\* such a record, and while the last answer of the endpoint is a validation
\* error there is no record, no scheduled task and no sampled frame.
C18_RejectedBeforeSampling ==
    /\ \A v \in DOMAIN uploads : PassesValidation(uploads[v].file_path)
    /\ pv.video_id = "v1" => has_video_upload("v1")
    /\ response.detail \in ValidationErrors =>
          /\ response.status = 400
          /\ ~has_video_upload("v1")
          /\ pv.video_id # "v1"
          /\ extracted = <<>>
          /\ detections = <<>>

\* An over-long video has just been rejected.
C18_Witness ==
    /\ response = Answer(400, "Video too long")
    /\ DOMAIN uploads = {}
    /\ pv.pc = "none"
    /\ extracted = <<>>

\* The number of multiples of I below D = frame_count / fps, in closed form:
\* the ceiling of frame_count / (fps * I).
SamplesBelowDuration(file) ==
    LET step == file.fps * FRAME_INTERVAL_SECONDS
    IN  (file.frame_count + step - 1) \div step

\* A 10-minute video at one frame per second.
TenMinuteVideo ==
    [ext_ok |-> TRUE, size_ok |-> TRUE, openable |-> TRUE,
     fps |-> 1, frame_count |-> 600]

NonDecreasing(rows) ==
    \A i \in 1 .. Len(rows) - 1 :
        rows[i].timestamp_seconds <= rows[i + 1].timestamp_seconds

ReturnedDict(r) ==
    <<r.keys, r.status, r.message, r.match_found, r.registered_id, r.public_id,
      r.distance, r.result>>

QueryOf(call) ==
    IF call.case_type = "public" THEN EncodingOf(sightings, call.case_id)
    ELSE EncodingOf(cases, call.case_id)

CandidatesOf(call) ==
    IF call.case_type = "public" THEN get_registered_cases_data("NF")
    ELSE get_public_cases_data("NF")

\* There are candidates and each has another dimension than the query.
NothingComparable(call) ==
    /\ CandidatesOf(call) # <<>>
    /\ \A k \in DOMAIN CandidatesOf(call) :
          Len(CandidatesOf(call)[k].encoding) # Len(QueryOf(call))

\* Some candidate has the query's dimension and each of those lies beyond
\* the tolerance.
ComparedAboveTolerance(call) ==
    /\ \E k \in DOMAIN CandidatesOf(call) :
          Len(CandidatesOf(call)[k].encoding) = Len(QueryOf(call))
    /\ ~SomeWithin(QueryOf(call), CandidatesOf(call), call.tolerance, FALSE)

\* C20 as claimed: the dict match_one_against_all returned for a run in which
\* no candidate had the target's dimension differs from the dict it returns,
\* on the same store, for any run in which a candidate was compared and lay
\* beyond the tolerance.
C20_DataErrorDistinguished ==
    (ret.call.fn = "match_one_against_all" /\ ret.status
        /\ NothingComparable(ret.call)) =>
       \A case_type \in {"public", "registered"}, tolerance \in Tolerances :
       \A case_id \in IdsOf(cases) \cup IdsOf(sightings) :
          LET other == match_one_returns(case_id, case_type, tolerance).ret
          IN  (other.status /\ ComparedAboveTolerance(other.call)) =>
                 ReturnedDict(ret) # ReturnedDict(other)

(***************************************************************************)
(* The two distance functions called on their own: calculate_cosine_distance *)
(* of match_algo and _cosine_distance of video_processor.                  *)
(***************************************************************************)
MaxDim == 2

Components == {-1, 0, 1, 2}

\* The vectors of at most MaxDim components, the empty one included.
DistanceInputs == UNION {[1 .. n -> Components] : n \in 0 .. MaxDim}

\* np.dot raises ValueError on two vectors of different lengths; both
\* functions reach it only after the test of the norms.
dot_raises(a, b) == norm_sq(a) # 0 /\ norm_sq(b) # 0 /\ Len(a) # Len(b)

Returned_distance(fn, a, b, value) ==
    [call |-> [fn |-> fn, a |-> a, b |-> b],
     raised |-> dot_raises(a, b),
     value |-> IF dot_raises(a, b) THEN DistanceOne ELSE value]

\* One call per behaviour: the functions keep no state between calls.
call_calculate_cosine_distance ==
    /\ ret = NoReturn
    /\ \E encoding1 \in DistanceInputs, encoding2 \in DistanceInputs :
          ret' = Returned_distance("calculate_cosine_distance", encoding1, encoding2,
                     IF dot_raises(encoding1, encoding2) THEN DistanceOne
                     ELSE calculate_cosine_distance(encoding1, encoding2))
    /\ UNCHANGED <<cases, sightings, DEEPFACE_AVAILABLE, task_vars, video_vars>>

call_cosine_distance ==
    /\ ret = NoReturn
    /\ \E a \in DistanceInputs, b \in DistanceInputs :
          ret' = Returned_distance("_cosine_distance", a, b,
                     IF dot_raises(a, b) THEN DistanceOne
                     ELSE cosine_distance(a, b))
    /\ UNCHANGED <<cases, sightings, DEEPFACE_AVAILABLE, task_vars, video_vars>>

InitDistance ==
    /\ cases = <<>>
    /\ sightings = <<>>
    /\ ret = NoReturn
    /\ DEEPFACE_AVAILABLE = TRUE
    /\ uploads = [v \in {} |-> 0]
    /\ detections = <<>>
    /\ response = NoAnswer
    /\ pv = IdlePv
    /\ extracted = <<>>
    /\ tasks = <<>>
    /\ commits = <<>>

NextDistance == call_calculate_cosine_distance \/ call_cosine_distance

SpecDistance == InitDistance /\ [][NextDistance]_vars

\* Two distances are the same number.
DistEqual(x, y) == ~DistLess(x, y) /\ ~DistLess(y, x)

Comparable(query, encoding) ==
    Len(encoding) = Len(query) /\ norm_sq(encoding) # 0

\* The candidate at position k of the list is the first of the comparable
\* candidates at the least distance from query.
FirstMinimum(query, candidates, k) ==
    \A j \in DOMAIN candidates :
        Comparable(query, candidates[j].encoding) =>
           /\ ~DistLess(calculate_cosine_distance(query, candidates[j].encoding),
                        calculate_cosine_distance(query, candidates[k].encoding))
           /\ j < k =>
                 DistLess(calculate_cosine_distance(query, candidates[k].encoding),
                          calculate_cosine_distance(query, candidates[j].encoding))

\* C24 as claimed: whenever a matcher links a query, no comparable candidate
\* is nearer to the query than the selected one, and no comparable candidate
\* that comes before it in the iteration order is as near.
C24_SelectsFirstMinimum ==
    ret.call.fn \in {"match", "match_one_against_all"} =>
       \A p \in WrotePairs(ret) :
          LET registered == ret.call.fn = "match_one_against_all"
                              /\ ret.call.case_type = "registered"
              query == IF registered THEN EncodingOf(cases, p[1])
                       ELSE EncodingOf(sightings, p[2])
              selected == IF registered THEN p[2] ELSE p[1]
              candidates == IF registered THEN get_public_cases_data("NF")
                            ELSE get_registered_cases_data("NF")
          IN  \A k \in DOMAIN candidates :
                 candidates[k].id = selected => FirstMinimum(query, candidates, k)

\* C25 as claimed: an embedding of non-zero norm is never taken for the zero
\* sentinel.  match_one_against_all does not answer "Invalid/Zero encoding"
\* for a sighting of non-zero norm, and a match run reports every sighting
\* of non-zero norm that has a case of non-zero norm and of its dimension
\* within the tolerance.
C25_SentinelIsZeroNorm ==
    /\ (ret.call.fn = "match_one_against_all" /\ ret.call.case_type = "public") =>
          \A k \in DOMAIN get_public_cases_data("NF") :
             (/\ get_public_cases_data("NF")[k].id = ret.call.case_id
              /\ norm_sq(get_public_cases_data("NF")[k].encoding) # 0)
               => ret.message # "Invalid/Zero encoding"
    /\ (ret.call.fn = "match" /\ ret.status) =>
          \A k \in DOMAIN get_public_cases_data("NF") :
             LET query == get_public_cases_data("NF")[k]
                 registered_cases == get_registered_cases_data("NF")
             IN  (/\ norm_sq(query.encoding) # 0
                  /\ \E j \in DOMAIN registered_cases :
                        /\ Comparable(query.encoding, registered_cases[j].encoding)
                        /\ DistLeq(calculate_cosine_distance(
                                       query.encoding, registered_cases[j].encoding),
                                   ret.call.tolerance))
                   => \E p \in ReportedPairs(ret) : p[2] = query.id

\* The sightings of the list that a match run with this tolerance accepts for
\* the case, in the order of the list.
AcceptedFor(case_id, public_cases, registered_cases, tolerance) ==
    SelectSeq(public_cases,
              LAMBDA q :
                 /\ np_sum(q.encoding) # 0
                 /\ accepts(match_scan(q.encoding, registered_cases, 1, NoBest),
                            tolerance)
                 /\ match_scan(q.encoding, registered_cases, 1, NoBest).best_match_id
                       = case_id)

C23_ProgressDiscipline ==
    /\ (/\ pv.pc \in {"scan", "flush_remaining"}
        /\ pv.processed > 0
        /\ pv.processed % PROGRESS_UPDATE_INTERVAL = 0) =>
          /\ pv.detections_buffer = <<>>
          /\ uploads[pv.video_id].processed_frames = pv.processed
          /\ uploads[pv.video_id].total_detections = pv.detection_count
    /\ pv.pc \in {"scan", "flush", "progress", "flush_remaining"} =>
          \A i \in DOMAIN pv.detections_buffer :
              pv.processed - pv.detections_buffer[i].frame_number
                  <= PROGRESS_UPDATE_INTERVAL

\* The stored embedding of the upload's target case is a list of zeros.
TargetAllZero(video_id) ==
    LET hits == SelectSeq(cases, LAMBDA c : c.id = uploads[video_id].case_id)
    IN  /\ hits # <<>>
        /\ hits[1].face_mesh.kind = "list"
        /\ AllZero(hits[1].face_mesh.val)

\* C26 as claimed: a video whose target case has the all-zero embedding never
\* gets a VideoDetection row and never reaches done, and its run has ended
\* with status failed, whatever the threshold and the faces found.
C26_ZeroTargetFails ==
    \A v \in DOMAIN uploads :
        TargetAllZero(v) =>
           /\ VideoRows(v) = <<>>
           /\ StatusOf(uploads, v) # "done"
           /\ (pv.pc = "returned" /\ pv.video_id = v) =>
                 StatusOf(uploads, v) = "failed"

\* C28: the total_detections counter of an upload record never exceeds the
\* number of VideoDetection rows stored for the video and equals it when
\* the status is done; the rows stored plus the detections in the buffer
\* are the detections the run has accepted, so a row once flushed stays;
\* and after a run has failed the detections left in its buffer are not
\* among the stored rows.
C28_CounterBelowRows ==
    \A v \in DOMAIN uploads :
        /\ uploads[v].total_detections <= Len(VideoRows(v))
        /\ uploads[v].status = "done" =>
              uploads[v].total_detections = Len(VideoRows(v))
        /\ pv.video_id = v =>
              /\ Len(VideoRows(v)) + Len(pv.detections_buffer) = pv.detection_count
              /\ uploads[v].status = "failed" =>
                    \A i \in DOMAIN pv.detections_buffer :
                    \A j \in DOMAIN detections :
                        pv.detections_buffer[i] # detections[j]

\* A run failed after its first flush with one more detection in the buffer.
C28_Witness ==
    /\ StatusOf(uploads, "v1") = "failed"
    /\ pv.pc = "returned"
    /\ Len(VideoRows("v1")) = 1
    /\ Len(pv.detections_buffer) = 1
    /\ uploads["v1"].total_detections = 1
    /\ pv.detection_count = 2

(***************************************************************************)
(* Claims about the confirmation of a match, checked under SpecFound and   *)
(* SpecConfirm.                                                            *)
(***************************************************************************)
\* The row of id in tbl after a confirmation that names it.
Confirmed(row, id, changes) == IF row.id = id THEN changes ELSE row

C27_Step(before, r, cases_before, cases_after, sightings_before, sightings_after) ==
    /\ (r # before /\ r.call.fn = "update_found_status") =>
          LET c == r.call.register_case_id
              s == r.call.public_case_id
          IN  IF HasRow(cases_before, c) /\ HasRow(sightings_before, s)
              THEN /\ ~r.raised
                   /\ cases_after =
                        [i \in DOMAIN cases_before |->
                           Confirmed(cases_before[i], c,
                               [cases_before[i] EXCEPT !.status = "F",
                                                       !.matched_with = s])]
                   /\ sightings_after =
                        [i \in DOMAIN sightings_before |->
                           Confirmed(sightings_before[i], s,
                               [sightings_before[i] EXCEPT !.status = "F"])]
              ELSE /\ r.raised
                   /\ cases_after = cases_before
                   /\ sightings_after = sightings_before
    /\ \A i \in DOMAIN cases_after :
          cases_after[i].status = "F" =>
             \E j \in DOMAIN sightings_after :
                /\ sightings_after[j].id = cases_after[i].matched_with
                /\ sightings_after[j].status = "F"
    /\ \A j \in DOMAIN sightings_after :
          sightings_after[j].status = "F" =>
             \E i \in DOMAIN cases_after : cases_after[i].status = "F"

\* C27: a call of update_found_status for a case and a sighting that both
\* exist does not raise and changes exactly the case's status to Found, its
\* matched_with to the sighting and the sighting's status to Found, in one
\* step; a call that names a missing case or a missing sighting raises and
\* changes neither table; so after every step each Found case is linked to
\* a Found sighting and a Found sighting comes with a Found case.
C27_AllOrNothing ==
    [][C27_Step(ret, ret', cases, cases', sightings, sightings')]_vars

\* The case exists, the sighting does not: the call raised and the case is
\* still open.
C27_Witness ==
    /\ ret.call.fn = "update_found_status"
    /\ ret.call.register_case_id = CaseId(1)
    /\ ret.call.public_case_id = MissingSightingId
    /\ ret.raised
    /\ Len(cases) = 1
    /\ cases[1].status = "NF" /\ cases[1].matched_with = NoneId
    /\ response = Answer(200, "error")

\* C29 as claimed: whatever the interleaving of confirmations and matcher
\* runs, every case of status Found is linked to a sighting of status Found.
C29_FoundLinksFound ==
    \A i \in DOMAIN cases :
        cases[i].status = "F" =>
           \E j \in DOMAIN sightings :
              /\ sightings[j].id = cases[i].matched_with
              /\ sightings[j].status = "F"

(***************************************************************************)
(* Claims about running a worker task again, checked under SpecRetrigger.  *)
(***************************************************************************)
\* C21 as claimed, for process_video: whatever number of times the task has
\* run for a video, VideoDetections holds at most one row for each face of
\* each frame of that video.
C21_NoSecondRow ==
    \A i, j \in DOMAIN detections :
        (/\ i < j
         /\ detections[i].video_id = detections[j].video_id
         /\ detections[i].frame_number = detections[j].frame_number)
          => detections[i].face_no # detections[j].face_no

====
